---- MODULE Spec2Model ----
(***************************************************************************)
(* A model of three pieces of the azd CLI:                                 *)
(*   - pkg/azapi/deployments.go : the wrapper over the ARM deployments     *)
(*     client (get, list, deploy, what-if, delete, output conversion);     *)
(*   - pkg/tools/kubectl/kubectl.go : the wrapper over the kubectl binary; *)
(*   - test/mocks (unnamed/part_000) : the mock context builder.           *)
(* Each piece has its own specification (SpecDeploy, SpecKubectl,          *)
(* SpecOutput, SpecMock); the variables of the other pieces stay idle.     *)
(***************************************************************************)
EXTENDS Integers, Sequences, FiniteSets, TLC

VARIABLES
    cloud,        \* ARM: the set of <<scope, name>> deployments that exist
    dcall,        \* deployments wrapper: the last invocation (op, SDK calls, return)
    env,          \* kubectlCli.env
    cwd,          \* kubectlCli.cwd
    kcall,        \* kubectl wrapper: the last invocation (op, runner calls, return)
    walk,         \* kubectlCli.Apply taken entry by entry: its frames, what it handed on
    rawOutputs,   \* CreateDeploymentOutput: the input
    output,       \* CreateDeploymentOutput: the outcome
    mockContext,  \* the MockContext built last
    nextId        \* the next fresh object identity of the test process

vars == <<cloud, dcall, env, cwd, kcall, walk, rawOutputs, output, mockContext, nextId>>

(***************************************************************************)
(* Go error values.  An error is the chain errors.Unwrap walks, outermost  *)
(* first; the empty chain is the nil error.                                *)
(***************************************************************************)
NoErr == <<>>

ErrNode(kind, status, msg) == [kind |-> kind, status |-> status, msg |-> msg]

StatusNotFound == 404

\* *azcore.ResponseError: it has no Unwrap, so it ends the chain it is in
ResponseError(status) == <<ErrNode("ResponseError", status, "")>>

\* any other leaf error (a transport failure, a cancelled context)
PlainError(msg) == <<ErrNode("errorString", 0, msg)>>

\* fmt.Errorf("<msg>: %w", err)
Wrapf(msg, err) == <<ErrNode("wrapError", 0, msg)>> \o err

ErrDeploymentNotFound == PlainError("deployment not found")

\* the errors the SDK client may hand back
SdkErrors ==
    { ResponseError(StatusNotFound), ResponseError(409),
      ResponseError(500), PlainError("connection reset"),
      Wrapf("sdk policy", ResponseError(StatusNotFound)),
      Wrapf("sdk policy", ResponseError(500)),
      Wrapf("sdk policy", PlainError("connection reset")) }

SdkOutcomes == {NoErr} \cup SdkErrors

\* errors.As(err, &target) for target *azcore.ResponseError: the first node of
\* the chain of that type, as a one-node chain; NoErr when there is none
RECURSIVE ErrorsAsResponseError(_)
ErrorsAsResponseError(err) ==
    IF err = NoErr THEN NoErr
    ELSE IF Head(err).kind = "ResponseError" THEN <<Head(err)>>
    ELSE ErrorsAsResponseError(Tail(err))

\* errors.Is(err, target) for a one-node target
RECURSIVE ErrorsIs(_, _)
ErrorsIs(err, target) ==
    IF err = NoErr THEN FALSE
    ELSE IF <<Head(err)>> = target THEN TRUE
    ELSE ErrorsIs(Tail(err), target)


(***************************************************************************)
(* The deployments wrapper (pkg/azapi/deployments.go).                     *)
(***************************************************************************)
Subscription == "subscription"
ResourceGroups == {"rg"}
DeploymentNames == {"d1", "d2"}
Scopes == {Subscription} \cup ResourceGroups

\* one request handed to the SDK client, with the error the SDK answered
SdkCall(api, scope, name, err) ==
    [api |-> api, scope |-> scope, name |-> name, err |-> err]

\* what an operation returns: its value and its error
NilResult == [kind |-> "nil", scope |-> "", name |-> "", items |-> <<>>]
DeploymentExtended(scope, name) ==
    [kind |-> "DeploymentExtended", scope |-> scope, name |-> name, items |-> <<>>]
WhatIfOperationResult(scope, name) ==
    [kind |-> "WhatIfOperationResult", scope |-> scope, name |-> name, items |-> <<>>]
ListResult(items) == [kind |-> "list", scope |-> "", name |-> "", items |-> items]

\* the outcome of one invocation: the SDK calls it made, in order, and its return
Ret(calls, result, err) == [calls |-> calls, result |-> result, err |-> err]

\* FetchPages, but a failed fetch returns the pages fetched before it
RECURSIVE FetchPages_KeepsFetched(_, _, _, _, _, _)
FetchPages_KeepsFetched(api, scope, script, i, results, calls) ==
    IF i > Len(script)
    THEN Ret(calls, ListResult(results), NoErr)
    ELSE LET page == script[i]
             c == SdkCall(api, scope, "", page.err)
         IN IF page.err # NoErr
            THEN Ret(Append(calls, c), ListResult(results), page.err)
            ELSE FetchPages_KeepsFetched(api, scope, script, i + 1,
                                         results \o page.value, Append(calls, c))

\* the loop over the pager: script[i] is what the i-th NextPage answers, and
\* pager.More() holds until the script is used up
RECURSIVE FetchPages(_, _, _, _, _, _)
FetchPages(api, scope, script, i, results, calls) ==
    IF i > Len(script)
    THEN Ret(calls, ListResult(results), NoErr)
    ELSE LET page == script[i]
             c == SdkCall(api, scope, "", page.err)
         IN IF page.err # NoErr
            THEN Ret(Append(calls, c), NilResult, page.err)
            ELSE FetchPages(api, scope, script, i + 1, results \o page.value,
                            Append(calls, c))

ListSubscriptionDeployments(script) ==
    FetchPages("NewListAtSubscriptionScopePager.NextPage", Subscription,
               script, 1, <<>>, <<>>)

ListResourceGroupDeployments(resourceGroupName, script) ==
    FetchPages("NewListByResourceGroupPager.NextPage", resourceGroupName,
               script, 1, <<>>, <<>>)

GetSubscriptionDeployment(deploymentName, sdkErr) ==
    LET c == SdkCall("GetAtSubscriptionScope", Subscription, deploymentName, sdkErr)
        errDetails == ErrorsAsResponseError(sdkErr)
    IN IF sdkErr # NoErr
       THEN IF errDetails # NoErr /\ errDetails[1].status = StatusNotFound
            THEN Ret(<<c>>, NilResult, ErrDeploymentNotFound)
            ELSE Ret(<<c>>, NilResult,
                     Wrapf("getting deployment from subscription", sdkErr))
       ELSE Ret(<<c>>, DeploymentExtended(Subscription, deploymentName), NoErr)

\* GetResourceGroupDeployment, but with a type assertion on the error itself in
\* place of errors.As
GetResourceGroupDeployment_TypeAssertion(resourceGroupName, deploymentName, sdkErr) ==
    LET c == SdkCall("Get", resourceGroupName, deploymentName, sdkErr)
    IN IF sdkErr # NoErr
       THEN IF Head(sdkErr).kind = "ResponseError"
               /\ Head(sdkErr).status = StatusNotFound
            THEN Ret(<<c>>, NilResult, ErrDeploymentNotFound)
            ELSE Ret(<<c>>, NilResult,
                     Wrapf("getting deployment from resource group", sdkErr))
       ELSE Ret(<<c>>, DeploymentExtended(resourceGroupName, deploymentName), NoErr)

GetResourceGroupDeployment(resourceGroupName, deploymentName, sdkErr) ==
    LET c == SdkCall("Get", resourceGroupName, deploymentName, sdkErr)
        errDetails == ErrorsAsResponseError(sdkErr)
    IN IF sdkErr # NoErr
       THEN IF errDetails # NoErr /\ errDetails[1].status = StatusNotFound
            THEN Ret(<<c>>, NilResult, ErrDeploymentNotFound)
            ELSE Ret(<<c>>, NilResult,
                     Wrapf("getting deployment from resource group", sdkErr))
       ELSE Ret(<<c>>, DeploymentExtended(resourceGroupName, deploymentName), NoErr)

\* createDeploymentError: a response error becomes a new AzureDeploymentError
\* carrying the response text (it wraps nothing); any other error is passed on
createDeploymentError(err) ==
    IF ErrorsAsResponseError(err) # NoErr
    THEN <<ErrNode("AzureDeploymentError", 0, "response text")>>
    ELSE err

DeployToSubscription(deploymentName, beginErr, pollErr) ==
    LET begin == SdkCall("BeginCreateOrUpdateAtSubscriptionScope", Subscription,
                         deploymentName, beginErr)
        poll == SdkCall("PollUntilDone", Subscription, deploymentName, pollErr)
    IN IF beginErr # NoErr
       THEN Ret(<<begin>>, NilResult,
                Wrapf("starting deployment to subscription", beginErr))
       ELSE IF pollErr # NoErr
       THEN Ret(<<begin, poll>>, NilResult,
                Wrapf("deploying to subscription", createDeploymentError(pollErr)))
       ELSE Ret(<<begin, poll>>, DeploymentExtended(Subscription, deploymentName),
                NoErr)

DeployToResourceGroup(resourceGroup, deploymentName, beginErr, pollErr) ==
    LET begin == SdkCall("BeginCreateOrUpdate", resourceGroup, deploymentName,
                         beginErr)
        poll == SdkCall("PollUntilDone", resourceGroup, deploymentName, pollErr)
    IN IF beginErr # NoErr
       THEN Ret(<<begin>>, NilResult,
                Wrapf("starting deployment to resource group", beginErr))
       ELSE IF pollErr # NoErr
       THEN Ret(<<begin, poll>>, NilResult,
                Wrapf("deploying to resource group", createDeploymentError(pollErr)))
       ELSE Ret(<<begin, poll>>, DeploymentExtended(resourceGroup, deploymentName),
                NoErr)

WhatIfDeployToSubscription(deploymentName, beginErr, pollErr) ==
    LET begin == SdkCall("BeginWhatIfAtSubscriptionScope", Subscription,
                         deploymentName, beginErr)
        poll == SdkCall("PollUntilDone", Subscription, deploymentName, pollErr)
    IN IF beginErr # NoErr
       THEN Ret(<<begin>>, NilResult,
                Wrapf("starting deployment to subscription", beginErr))
       ELSE IF pollErr # NoErr
       THEN Ret(<<begin, poll>>, NilResult,
                Wrapf("deploying to subscription", createDeploymentError(pollErr)))
       ELSE Ret(<<begin, poll>>, WhatIfOperationResult(Subscription, deploymentName),
                NoErr)

\* WhatIfDeployToResourceGroup, but beginning the deployment it was copied from
WhatIfDeployToResourceGroup_Deploys(resourceGroup, deploymentName, beginErr, pollErr) ==
    LET begin == SdkCall("BeginCreateOrUpdate", resourceGroup, deploymentName,
                         beginErr)
        poll == SdkCall("PollUntilDone", resourceGroup, deploymentName, pollErr)
    IN IF beginErr # NoErr
       THEN Ret(<<begin>>, NilResult,
                Wrapf("starting deployment to resource group", beginErr))
       ELSE IF pollErr # NoErr
       THEN Ret(<<begin, poll>>, NilResult,
                Wrapf("deploying to resource group", createDeploymentError(pollErr)))
       ELSE Ret(<<begin, poll>>, WhatIfOperationResult(resourceGroup, deploymentName),
                NoErr)

WhatIfDeployToResourceGroup(resourceGroup, deploymentName, beginErr, pollErr) ==
    LET begin == SdkCall("BeginWhatIf", resourceGroup, deploymentName, beginErr)
        poll == SdkCall("PollUntilDone", resourceGroup, deploymentName, pollErr)
    IN IF beginErr # NoErr
       THEN Ret(<<begin>>, NilResult,
                Wrapf("starting deployment to resource group", beginErr))
       ELSE IF pollErr # NoErr
       THEN Ret(<<begin, poll>>, NilResult,
                Wrapf("deploying to resource group", createDeploymentError(pollErr)))
       ELSE Ret(<<begin, poll>>, WhatIfOperationResult(resourceGroup, deploymentName),
                NoErr)

\* DeleteSubscriptionDeployment, but with the poll's error dropped
DeleteSubscriptionDeployment_PollErrorDropped(deploymentName, beginErr, pollErr) ==
    LET begin == SdkCall("BeginDeleteAtSubscriptionScope", Subscription,
                         deploymentName, beginErr)
        poll == SdkCall("PollUntilDone", Subscription, deploymentName, pollErr)
    IN IF beginErr # NoErr
       THEN Ret(<<begin>>, NilResult, Wrapf("starting to delete deployment", beginErr))
       ELSE Ret(<<begin, poll>>, NilResult, NoErr)

DeleteSubscriptionDeployment(deploymentName, beginErr, pollErr) ==
    LET begin == SdkCall("BeginDeleteAtSubscriptionScope", Subscription,
                         deploymentName, beginErr)
        poll == SdkCall("PollUntilDone", Subscription, deploymentName, pollErr)
    IN IF beginErr # NoErr
       THEN Ret(<<begin>>, NilResult, Wrapf("starting to delete deployment", beginErr))
       ELSE IF pollErr # NoErr
       THEN Ret(<<begin, poll>>, NilResult,
                Wrapf("deleting deployment operation", pollErr))
       ELSE Ret(<<begin, poll>>, NilResult, NoErr)


(***************************************************************************)
(* ARM, as far as the wrapper's requests change it: an accepted            *)
(* create-or-update records the deployment, an accepted delete removes it, *)
(* and no other request (what-if, get, list, poll) changes what exists.    *)
(***************************************************************************)
CreateApis == {"BeginCreateOrUpdateAtSubscriptionScope", "BeginCreateOrUpdate"}
DeleteApis == {"BeginDeleteAtSubscriptionScope"}
WhatIfApis == {"BeginWhatIfAtSubscriptionScope", "BeginWhatIf"}
BeginApis == CreateApis \cup DeleteApis \cup WhatIfApis

ArmEffect(c, existing) ==
    IF c.err # NoErr THEN existing
    ELSE IF c.api \in CreateApis THEN existing \cup {<<c.scope, c.name>>}
    ELSE IF c.api \in DeleteApis THEN existing \ {<<c.scope, c.name>>}
    ELSE existing

RECURSIVE ApplyCalls(_, _)
ApplyCalls(calls, existing) ==
    IF calls = <<>> THEN existing
    ELSE ApplyCalls(Tail(calls), ArmEffect(Head(calls), existing))

\* bounds of the deployments model
MaxPages == 2
MaxPageLen == 2

SeqsUpTo(S, n) == UNION {[1..k -> S] : k \in 0..n}

ListErrors == {ResponseError(500), PlainError("connection reset")}

\* what one NextPage may answer: a page of deployments, or an error
PageOutcomes ==
    {[err |-> NoErr, value |-> v] : v \in SeqsUpTo(DeploymentNames, MaxPageLen)}
    \cup {[err |-> e, value |-> <<>>] : e \in ListErrors}

PagerScripts == SeqsUpTo(PageOutcomes, MaxPages)

NoCall ==
    [op |-> "none", script |-> <<>>, sdkErr |-> NoErr, calls |-> <<>>,
     result |-> NilResult, err |-> NoErr, pre |-> {}]

\* the record of one invocation: its inputs, the SDK calls it made, its return,
\* and the deployments that existed when it began
Called(op, script, sdkErr, r) ==
    [op |-> op, script |-> script, sdkErr |-> sdkErr, calls |-> r.calls,
     result |-> r.result, err |-> r.err, pre |-> cloud]

\* The caller invokes the operations one after the other: an operation begins
\* when the caller holds no record of an earlier one (DropDeployResult).
ListSubscriptionDeploymentsOp ==
    /\ dcall = NoCall
    /\ \E script \in PagerScripts :
           LET r == ListSubscriptionDeployments(script)
           IN /\ dcall' = Called("ListSubscriptionDeployments", script, NoErr, r)
              /\ cloud' = ApplyCalls(r.calls, cloud)
              /\ UNCHANGED <<env, cwd, kcall, walk, rawOutputs, output, mockContext, nextId>>

ListResourceGroupDeploymentsOp ==
    /\ dcall = NoCall
    /\ \E rg \in ResourceGroups, script \in PagerScripts :
           LET r == ListResourceGroupDeployments(rg, script)
           IN /\ dcall' = Called("ListResourceGroupDeployments", script, NoErr, r)
              /\ cloud' = ApplyCalls(r.calls, cloud)
              /\ UNCHANGED <<env, cwd, kcall, walk, rawOutputs, output, mockContext, nextId>>

\* the SDK answers a get without error only for a deployment that exists
GetSubscriptionDeploymentOp ==
    /\ dcall = NoCall
    /\ \E name \in DeploymentNames, sdkErr \in SdkOutcomes :
           LET r == GetSubscriptionDeployment(name, sdkErr)
           IN /\ sdkErr = NoErr => <<Subscription, name>> \in cloud
              /\ dcall' = Called("GetSubscriptionDeployment", <<>>, sdkErr, r)
              /\ cloud' = ApplyCalls(r.calls, cloud)
              /\ UNCHANGED <<env, cwd, kcall, walk, rawOutputs, output, mockContext, nextId>>

GetResourceGroupDeploymentOp ==
    /\ dcall = NoCall
    /\ \E rg \in ResourceGroups, name \in DeploymentNames, sdkErr \in SdkOutcomes :
           LET r == GetResourceGroupDeployment(rg, name, sdkErr)
           IN /\ sdkErr = NoErr => <<rg, name>> \in cloud
              /\ dcall' = Called("GetResourceGroupDeployment", <<>>, sdkErr, r)
              /\ cloud' = ApplyCalls(r.calls, cloud)
              /\ UNCHANGED <<env, cwd, kcall, walk, rawOutputs, output, mockContext, nextId>>

\* the answers of the SDK to a begin request and to the poll that may follow it
LroOutcomes == SdkOutcomes \X SdkOutcomes

DeployToSubscriptionOp ==
    /\ dcall = NoCall
    /\ \E name \in DeploymentNames, o \in LroOutcomes :
           LET r == DeployToSubscription(name, o[1], o[2])
           IN /\ dcall' = Called("DeployToSubscription", <<>>, NoErr, r)
              /\ cloud' = ApplyCalls(r.calls, cloud)
              /\ UNCHANGED <<env, cwd, kcall, walk, rawOutputs, output, mockContext, nextId>>

DeployToResourceGroupOp ==
    /\ dcall = NoCall
    /\ \E rg \in ResourceGroups, name \in DeploymentNames, o \in LroOutcomes :
           LET r == DeployToResourceGroup(rg, name, o[1], o[2])
           IN /\ dcall' = Called("DeployToResourceGroup", <<>>, NoErr, r)
              /\ cloud' = ApplyCalls(r.calls, cloud)
              /\ UNCHANGED <<env, cwd, kcall, walk, rawOutputs, output, mockContext, nextId>>

WhatIfDeployToSubscriptionOp ==
    /\ dcall = NoCall
    /\ \E name \in DeploymentNames, o \in LroOutcomes :
           LET r == WhatIfDeployToSubscription(name, o[1], o[2])
           IN /\ dcall' = Called("WhatIfDeployToSubscription", <<>>, NoErr, r)
              /\ cloud' = ApplyCalls(r.calls, cloud)
              /\ UNCHANGED <<env, cwd, kcall, walk, rawOutputs, output, mockContext, nextId>>

WhatIfDeployToResourceGroupOp ==
    /\ dcall = NoCall
    /\ \E rg \in ResourceGroups, name \in DeploymentNames, o \in LroOutcomes :
           LET r == WhatIfDeployToResourceGroup(rg, name, o[1], o[2])
           IN /\ dcall' = Called("WhatIfDeployToResourceGroup", <<>>, NoErr, r)
              /\ cloud' = ApplyCalls(r.calls, cloud)
              /\ UNCHANGED <<env, cwd, kcall, walk, rawOutputs, output, mockContext, nextId>>

DeleteSubscriptionDeploymentOp ==
    /\ dcall = NoCall
    /\ \E name \in DeploymentNames, o \in LroOutcomes :
           LET r == DeleteSubscriptionDeployment(name, o[1], o[2])
           IN /\ dcall' = Called("DeleteSubscriptionDeployment", <<>>, NoErr, r)
              /\ cloud' = ApplyCalls(r.calls, cloud)
              /\ UNCHANGED <<env, cwd, kcall, walk, rawOutputs, output, mockContext, nextId>>

\* the caller is done with the last invocation's return
DropDeployResult ==
    /\ dcall # NoCall
    /\ dcall' = NoCall
    /\ UNCHANGED <<cloud, env, cwd, kcall, walk, rawOutputs, output, mockContext, nextId>>

(***************************************************************************)
(* The kubectl wrapper (pkg/tools/kubectl/kubectl.go).                     *)
(*                                                                         *)
(* A string built by fmt.Sprintf is the sequence of its pieces, so a       *)
(* command-line argument is a sequence of strings: <<"get">> is "get" and  *)
(* <<"--dry-run=", "client">> is "--dry-run=client".  exec.RunArgs is the  *)
(* record of what the builder calls made on it have set.                   *)
(***************************************************************************)
Arg(s) == <<s>>

EnvKeys == {"A", "B"}
EnvValues == {"", "1"}

\* a Go map[string]string; the nil map and the empty map read alike
EnvMaps == UNION {[K -> EnvValues] : K \in SUBSET EnvKeys}

WorkDirs == {"/src"}
KubeConfigDir == "/home/.kube"

\* *KubeCliFlags: nil, or the three fields
NilFlags == [isNil |-> TRUE, Namespace |-> "", DryRun |-> "", Output |-> ""]
KubeCliFlags ==
    {NilFlags} \cup
    [isNil : {FALSE}, Namespace : {"", "ns"}, DryRun : {"", "client"},
     Output : {"", "json"}]

\* exec.NewRunArgs(cmd, args...)
NewRunArgs(cmd, args) ==
    [Cmd |-> cmd, Args |-> args, Cwd |-> "", Env |-> {}, EnvSet |-> FALSE,
     StdIn |-> <<>>, HasStdIn |-> FALSE, EnrichError |-> FALSE]

\* environ(values): one "key=value" entry per key of the map, in the map's
\* iteration order, which Go leaves unspecified: the entries are kept as a set
environ(values) == {<<key, "=", values[key]>> : key \in DOMAIN values}

\* executeCommandWithArgs, but keeping a working directory the caller has set
executeCommandWithArgs_KeepsCallerCwd(args, flags) ==
    LET a0 == [args EXCEPT !.EnrichError = TRUE]
        a1 == IF cwd # "" /\ a0.Cwd = "" THEN [a0 EXCEPT !.Cwd = cwd] ELSE a0
        a2 == IF ~flags.isNil /\ flags.DryRun # ""
              THEN [a1 EXCEPT !.Args = @ \o <<(<<"--dry-run=", flags.DryRun>>)>>]
              ELSE a1
        a3 == IF ~flags.isNil /\ flags.Namespace # ""
              THEN [a2 EXCEPT !.Args = @ \o <<Arg("-n"), Arg(flags.Namespace)>>]
              ELSE a2
        a4 == IF ~flags.isNil /\ flags.Output # ""
              THEN [a3 EXCEPT !.Args = @ \o <<Arg("-o"), Arg(flags.Output)>>]
              ELSE a3
    IN a4

\* executeCommandWithArgs, but with the namespace appended before the dry run
executeCommandWithArgs_NamespaceFirst(args, flags) ==
    LET a0 == [args EXCEPT !.EnrichError = TRUE]
        a1 == IF cwd # "" THEN [a0 EXCEPT !.Cwd = cwd] ELSE a0
        a2 == IF ~flags.isNil /\ flags.Namespace # ""
              THEN [a1 EXCEPT !.Args = @ \o <<Arg("-n"), Arg(flags.Namespace)>>]
              ELSE a1
        a3 == IF ~flags.isNil /\ flags.DryRun # ""
              THEN [a2 EXCEPT !.Args = @ \o <<(<<"--dry-run=", flags.DryRun>>)>>]
              ELSE a2
        a4 == IF ~flags.isNil /\ flags.Output # ""
              THEN [a3 EXCEPT !.Args = @ \o <<Arg("-o"), Arg(flags.Output)>>]
              ELSE a3
    IN a4

\* executeCommandWithArgs: the RunArgs handed to commandRunner.Run
executeCommandWithArgs(args, flags) ==
    LET a0 == [args EXCEPT !.EnrichError = TRUE]
        a1 == IF cwd # "" THEN [a0 EXCEPT !.Cwd = cwd] ELSE a0
        a2 == IF ~flags.isNil /\ flags.DryRun # ""
              THEN [a1 EXCEPT !.Args = @ \o <<(<<"--dry-run=", flags.DryRun>>)>>]
              ELSE a1
        a3 == IF ~flags.isNil /\ flags.Namespace # ""
              THEN [a2 EXCEPT !.Args = @ \o <<Arg("-n"), Arg(flags.Namespace)>>]
              ELSE a2
        a4 == IF ~flags.isNil /\ flags.Output # ""
              THEN [a3 EXCEPT !.Args = @ \o <<Arg("-o"), Arg(flags.Output)>>]
              ELSE a3
    IN a4

\* what one invocation of the wrapper did: the RunArgs it handed to the command
\* runner, in order, the manifests whose text it handed to kubectl, and its error
KRet(runs, applied, err) == [runs |-> runs, applied |-> applied, err |-> err]

\* the command runner's answer to one Run
RunErrors == {NoErr, PlainError("exit status 1")}

Exec(flags, args, runErr) ==
    LET runArgs == [NewRunArgs("kubectl", <<>>) EXCEPT !.Args = @ \o args]
    IN KRet(<<executeCommandWithArgs(runArgs, flags)>>, <<>>, runErr)

ConfigUseContext(name, flags, runErr) ==
    LET r == Exec(flags, <<Arg("config"), Arg("use-context"), Arg(name)>>, runErr)
    IN IF r.err # NoErr
       THEN [r EXCEPT !.err = Wrapf("failed setting kubectl context", @)]
       ELSE r

\* dirErr: getKubeConfigDir() failed
ConfigView(merge, flatten, flags, dirErr, runErr) ==
    IF dirErr # NoErr THEN KRet(<<>>, <<>>, dirErr)
    ELSE
    LET args0 == <<Arg("config"), Arg("view")>>
        args1 == IF merge THEN Append(args0, Arg("--merge")) ELSE args0
        args2 == IF flatten THEN Append(args1, Arg("--flatten")) ELSE args1
        runArgs == [NewRunArgs("kubectl", args2) EXCEPT
                        !.Cwd = KubeConfigDir,
                        !.Env = environ(env), !.EnvSet = TRUE]
        handed == executeCommandWithArgs(runArgs, flags)
    IN IF runErr # NoErr
       THEN KRet(<<handed>>, <<>>, Wrapf("kubectl config view", runErr))
       ELSE KRet(<<handed>>, <<>>, NoErr)

ApplyWithInput(input, flags, runErr) ==
    LET runArgs == [NewRunArgs("kubectl", <<Arg("apply"), Arg("-f"), Arg("-")>>)
                        EXCEPT !.Env = environ(env), !.EnvSet = TRUE,
                               !.StdIn = input, !.HasStdIn = TRUE]
        handed == executeCommandWithArgs(runArgs, flags)
    IN IF runErr # NoErr
       THEN KRet(<<handed>>, <<>>, Wrapf("kubectl apply -f", runErr))
       ELSE KRet(<<handed>>, <<>>, NoErr)

RECURSIVE FromLiterals(_)
FromLiterals(secrets) ==
    IF secrets = <<>> THEN <<>>
    ELSE <<(<<"--from-literal=", Head(secrets)>>)>> \o FromLiterals(Tail(secrets))

CreateSecretGenericFromLiterals(name, secrets, flags, runErr) ==
    LET args == <<Arg("create"), Arg("secret"), Arg("generic"), Arg(name)>>
                \o FromLiterals(secrets)
        r == Exec(flags, args, runErr)
    IN IF r.err # NoErr
       THEN [r EXCEPT !.err = Wrapf("kubectl create secret generic --from-literal", @)]
       ELSE r

CreateNamespace(name, flags, runErr) ==
    LET r == Exec(flags, <<Arg("create"), Arg("namespace"), Arg(name)>>, runErr)
    IN IF r.err # NoErr
       THEN [r EXCEPT !.err = Wrapf("kubectl create namespace", @)]
       ELSE r

RolloutStatus(deploymentName, flags, runErr) ==
    LET r == Exec(flags, <<Arg("rollout"), Arg("status"),
                           <<"deployment/", deploymentName>> >>, runErr)
    IN IF r.err # NoErr
       THEN [r EXCEPT !.err = Wrapf("deployment rollout failed", @)]
       ELSE r


(***************************************************************************)
(* Apply: the traversal of a directory of manifests.                       *)
(*                                                                         *)
(* A file name is the sequence of its characters.  A directory listing is  *)
(* what os.ReadDir returns: the entries sorted by file name.  AllNames is  *)
(* in that order; entry "b" is a directory, the others are files.          *)
(***************************************************************************)
NameA == <<"a", ".", "y", "a", "m", "l">>
NameB == <<"b">>
NameC == <<"c", ".", "t", "x", "t">>
NameD == <<"d", ".", "y", "m", "l">>
AllNames == <<NameA, NameB, NameC, NameD>>
DirIndex == 2
RootPath == <<(<<"k", "8", "s">>)>>

\* bounds of the kubectl model
MaxDepth == 1
MaxArgs == 2

RECURSIVE MkListing(_, _, _)
MkListing(I, sub, i) ==
    IF i > Len(AllNames) THEN <<>>
    ELSE IF i \in I
    THEN <<[name |-> AllNames[i], isDir |-> (i = DirIndex),
            entries |-> IF i = DirIndex THEN sub ELSE <<>>]>>
         \o MkListing(I, sub, i + 1)
    ELSE MkListing(I, sub, i + 1)

\* the listings of a directory with at most d levels of directories below it
RECURSIVE Listings(_)
Listings(d) ==
    UNION { {MkListing(I, sub, 1) :
                sub \in IF DirIndex \in I THEN Listings(d - 1) ELSE {<<>>}} :
            I \in SUBSET (IF d = 0 THEN (1..Len(AllNames)) \ {DirIndex}
                                   ELSE 1..Len(AllNames)) }

\* filepath.Ext: the suffix of the name from its last dot, "" when it has none
RECURSIVE ExtFrom(_, _)
ExtFrom(name, i) ==
    IF i = 0 \/ name[i] = "/" THEN <<>>
    ELSE IF name[i] = "." THEN SubSeq(name, i, Len(name))
    ELSE ExtFrom(name, i - 1)

Ext(name) == ExtFrom(name, Len(name))

ExtYaml == <<".", "y", "a", "m", "l">>
ExtYml == <<".", "y", "m", "l">>

\* a manifest's text: literals and ${NAME} references.  Every file of one name
\* holds the same text.
Lit(text) == [var |-> FALSE, text |-> text]
Var(name) == [var |-> TRUE, text |-> name]

ManifestText(name) ==
    IF name = NameA THEN <<Lit("kind: Pod "), Var("A")>>
    ELSE IF name = NameD THEN <<Var("B"), Lit(" kind: Service "), Var("A")>>
    ELSE <<Lit("plain text")>>

\* os.Getenv in the process that runs azd: B is not set there
OsGetenv(name) == IF name = "A" THEN "hostA" ELSE ""

\* EnvMapping, but taking a name the map holds with an empty value as unset
EnvMapping_EmptyIsUnset(name) ==
    IF name \in DOMAIN env /\ env[name] # "" THEN env[name] ELSE OsGetenv(name)

\* the mapping applyTemplate gives envsubst.Eval
EnvMapping(name) == IF name \in DOMAIN env THEN env[name] ELSE OsGetenv(name)

\* envsubst.Eval on a well-formed text: every reference replaced by its mapping
RECURSIVE EnvsubstEval(_)
EnvsubstEval(text) ==
    IF text = <<>> THEN <<>>
    ELSE <<IF Head(text).var THEN EnvMapping(Head(text).text) ELSE Head(text).text>>
         \o EnvsubstEval(Tail(text))

\* The traversal threads a record st: n counts the fallible steps taken so far
\* (os.ReadDir, os.ReadFile, envsubst.Eval, commandRunner.Run), runs and applied
\* are the log, err is the error returned.  Step number `fail` fails (0: none).
applyTemplate(filePath, flags, fail, st) ==
    IF st.n + 1 = fail
    THEN [st EXCEPT !.n = @ + 1,
                    !.err = Wrapf("failed reading manifest file", PlainError("read"))]
    ELSE IF st.n + 2 = fail
    THEN [st EXCEPT !.n = @ + 2,
                    !.err = Wrapf("failed replacing env vars", PlainError("parse"))]
    ELSE LET replaced == EnvsubstEval(ManifestText(filePath[Len(filePath)]))
             r == ApplyWithInput(replaced, flags,
                                 IF st.n + 3 = fail THEN PlainError("exit status 1")
                                                    ELSE NoErr)
         IN [st EXCEPT !.n = @ + 3,
                       !.runs = @ \o r.runs,
                       !.applied = Append(@, filePath),
                       !.err = IF r.err # NoErr
                               THEN Wrapf("failed applying file", r.err)
                               ELSE NoErr]

RECURSIVE applyTemplates(_, _, _, _, _)
RECURSIVE applyEntries(_, _, _, _, _, _)

\* applyEntries, but taking only ".yaml" for a manifest
applyEntries_YamlOnly(directoryPath, entries, i, flags, fail, st) ==
    IF i > Len(entries) THEN st
    ELSE LET entry == entries[i]
             entryPath == Append(directoryPath, entry.name)
             ext == Ext(entry.name)
         IN IF entry.isDir
            THEN LET sub == applyTemplates(entryPath, entry.entries, flags, fail, st)
                 IN IF sub.err # NoErr
                    THEN [sub EXCEPT !.err = Wrapf("failed applying templates at", @)]
                    ELSE applyEntries(directoryPath, entries, i + 1, flags, fail, sub)
            ELSE IF ~(ext = ExtYaml)
            THEN applyEntries(directoryPath, entries, i + 1, flags, fail, st)
            ELSE LET one == applyTemplate(entryPath, flags, fail, st)
                 IN IF one.err # NoErr
                    THEN [one EXCEPT !.err = Wrapf("failed applying template", @)]
                    ELSE applyEntries(directoryPath, entries, i + 1, flags, fail, one)

\* applyEntries, but going on to the entries after a template that failed
applyEntries_KeepsGoing(directoryPath, entries, i, flags, fail, st) ==
    IF i > Len(entries) THEN st
    ELSE LET entry == entries[i]
             entryPath == Append(directoryPath, entry.name)
             ext == Ext(entry.name)
         IN IF entry.isDir
            THEN LET sub == applyTemplates(entryPath, entry.entries, flags, fail, st)
                 IN IF sub.err # NoErr
                    THEN [sub EXCEPT !.err = Wrapf("failed applying templates at", @)]
                    ELSE applyEntries(directoryPath, entries, i + 1, flags, fail, sub)
            ELSE IF ~(ext = ExtYaml \/ ext = ExtYml)
            THEN applyEntries(directoryPath, entries, i + 1, flags, fail, st)
            ELSE LET one == applyTemplate(entryPath, flags, fail, st)
                 IN IF one.err # NoErr
                    THEN LET rest == applyEntries(directoryPath, entries, i + 1, flags,
                                                  fail, [one EXCEPT !.err = NoErr])
                         IN [rest EXCEPT !.err = Wrapf("failed applying template", one.err)]
                    ELSE applyEntries(directoryPath, entries, i + 1, flags, fail, one)

\* the loop of applyTemplates over entries[i..]
applyEntries(directoryPath, entries, i, flags, fail, st) ==
    IF i > Len(entries) THEN st
    ELSE LET entry == entries[i]
             entryPath == Append(directoryPath, entry.name)
             ext == Ext(entry.name)
         IN IF entry.isDir
            THEN LET sub == applyTemplates(entryPath, entry.entries, flags, fail, st)
                 IN IF sub.err # NoErr
                    THEN [sub EXCEPT !.err = Wrapf("failed applying templates at", @)]
                    ELSE applyEntries(directoryPath, entries, i + 1, flags, fail, sub)
            ELSE IF ~(ext = ExtYaml \/ ext = ExtYml)
            THEN applyEntries(directoryPath, entries, i + 1, flags, fail, st)
            ELSE LET one == applyTemplate(entryPath, flags, fail, st)
                 IN IF one.err # NoErr
                    THEN [one EXCEPT !.err = Wrapf("failed applying template", @)]
                    ELSE applyEntries(directoryPath, entries, i + 1, flags, fail, one)

applyTemplates(directoryPath, entries, flags, fail, st) ==
    IF st.n + 1 = fail
    THEN [st EXCEPT !.n = @ + 1,
                    !.err = Wrapf("failed reading files in path", PlainError("readdir"))]
    ELSE applyEntries(directoryPath, entries, 1, flags, fail, [st EXCEPT !.n = @ + 1])

Apply(path, listing, flags, fail) ==
    LET st == applyTemplates(path, listing, flags, fail,
                             [n |-> 0, runs |-> <<>>, applied |-> <<>>, err |-> NoErr])
    IN IF st.err # NoErr
       THEN [st EXCEPT !.err = Wrapf("failed process templates", @)]
       ELSE st


\* the inputs the wrapper's callers draw from
KubeNames == {"web", "api"}
ExecWords == {Arg("get"), Arg("-n")}
ExecArgLists == SeqsUpTo(ExecWords, MaxArgs)
SecretLists == SeqsUpTo({"user=u", "pass=p"}, MaxArgs)
Inputs == {<<"kind: Pod">>, <<>>}

\* the flags Apply is called with: none, or every field set
ApplyFlags ==
    {NilFlags,
     [isNil |-> FALSE, Namespace |-> "ns", DryRun |-> "client", Output |-> "json"]}

KNone ==
    [op |-> "none", flags |-> NilFlags, args |-> <<>>, name |-> "",
     merge |-> FALSE, flatten |-> FALSE, input |-> <<>>, listing |-> <<>>,
     fail |-> 0, runs |-> <<>>, applied |-> <<>>, err |-> NoErr]

\* no Apply is being taken entry by entry
NoWalk ==
    [state |-> "idle", flags |-> NilFlags, stack |-> <<>>, runs |-> <<>>,
     applied |-> <<>>, envs |-> <<>>, setEnv |-> FALSE, err |-> NoErr]

\* the record of one invocation: its inputs, what it handed on, its error
KCalled(call, r) ==
    [call EXCEPT !.runs = r.runs, !.applied = r.applied, !.err = r.err]

\* The caller invokes the operations one after the other: an operation begins
\* when the caller holds no record of an earlier one (DropKubectlResult).
SetEnv ==
    /\ kcall = KNone
    /\ walk = NoWalk
    /\ \E envValues \in EnvMaps :
           /\ env' = envValues
           /\ UNCHANGED <<cloud, dcall, cwd, kcall, walk, rawOutputs, output, mockContext,
                          nextId>>

Cwd ==
    /\ kcall = KNone
    /\ \E c \in WorkDirs \cup {""} :
           /\ cwd' = c
           /\ UNCHANGED <<cloud, dcall, env, kcall, walk, rawOutputs, output, mockContext,
                          nextId>>

ExecOp ==
    /\ kcall = KNone
    /\ \E flags \in KubeCliFlags, args \in ExecArgLists, runErr \in RunErrors :
           LET r == Exec(flags, args, runErr)
           IN /\ kcall' = KCalled([KNone EXCEPT !.op = "Exec", !.flags = flags, !.args = args], r)
              /\ UNCHANGED <<cloud, dcall, env, cwd, walk, rawOutputs, output, mockContext, nextId>>

ConfigUseContextOp ==
    /\ kcall = KNone
    /\ \E flags \in KubeCliFlags, name \in KubeNames, runErr \in RunErrors :
           LET r == ConfigUseContext(name, flags, runErr)
           IN /\ kcall' = KCalled([KNone EXCEPT !.op = "ConfigUseContext", !.flags = flags,
                                       !.name = name], r)
              /\ UNCHANGED <<cloud, dcall, env, cwd, walk, rawOutputs, output, mockContext, nextId>>

ConfigViewOp ==
    /\ kcall = KNone
    /\ \E flags \in KubeCliFlags, merge \in BOOLEAN, flatten \in BOOLEAN,
          dirErr \in {NoErr, PlainError("$HOME is not defined")}, runErr \in RunErrors :
           LET r == ConfigView(merge, flatten, flags, dirErr, runErr)
           IN /\ kcall' = KCalled([KNone EXCEPT !.op = "ConfigView", !.flags = flags,
                                       !.merge = merge, !.flatten = flatten], r)
              /\ UNCHANGED <<cloud, dcall, env, cwd, walk, rawOutputs, output, mockContext, nextId>>

ApplyWithInputOp ==
    /\ kcall = KNone
    /\ \E flags \in KubeCliFlags, input \in Inputs, runErr \in RunErrors :
           LET r == ApplyWithInput(input, flags, runErr)
           IN /\ kcall' = KCalled([KNone EXCEPT !.op = "ApplyWithInput", !.flags = flags,
                                       !.input = input], r)
              /\ UNCHANGED <<cloud, dcall, env, cwd, walk, rawOutputs, output, mockContext, nextId>>

CreateNamespaceOp ==
    /\ kcall = KNone
    /\ \E flags \in KubeCliFlags, name \in KubeNames, runErr \in RunErrors :
           LET r == CreateNamespace(name, flags, runErr)
           IN /\ kcall' = KCalled([KNone EXCEPT !.op = "CreateNamespace", !.flags = flags,
                                       !.name = name], r)
              /\ UNCHANGED <<cloud, dcall, env, cwd, walk, rawOutputs, output, mockContext, nextId>>

CreateSecretGenericFromLiteralsOp ==
    /\ kcall = KNone
    /\ \E flags \in KubeCliFlags, name \in KubeNames, secrets \in SecretLists,
          runErr \in RunErrors :
           LET r == CreateSecretGenericFromLiterals(name, secrets, flags, runErr)
           IN /\ kcall' = KCalled([KNone EXCEPT !.op = "CreateSecretGenericFromLiterals",
                                       !.flags = flags, !.name = name,
                                       !.args = secrets], r)
              /\ UNCHANGED <<cloud, dcall, env, cwd, walk, rawOutputs, output, mockContext, nextId>>

RolloutStatusOp ==
    /\ kcall = KNone
    /\ \E flags \in KubeCliFlags, name \in KubeNames, runErr \in RunErrors :
           LET r == RolloutStatus(name, flags, runErr)
           IN /\ kcall' = KCalled([KNone EXCEPT !.op = "RolloutStatus", !.flags = flags,
                                       !.name = name], r)
              /\ UNCHANGED <<cloud, dcall, env, cwd, walk, rawOutputs, output, mockContext, nextId>>

\* the number of fallible steps of a traversal no step of which fails
StepsOf(listing) == Apply(RootPath, listing, NilFlags, 0).n

ApplyOp ==
    /\ kcall = KNone
    /\ \E flags \in ApplyFlags, listing \in Listings(MaxDepth) :
           \E fail \in 0..StepsOf(listing) :
               LET st == Apply(RootPath, listing, flags, fail)
               IN /\ kcall' = KCalled([KNone EXCEPT !.op = "Apply", !.flags = flags,
                                                    !.listing = listing, !.fail = fail],
                                      KRet(st.runs, st.applied, st.err))
                  /\ UNCHANGED <<cloud, dcall, env, cwd, walk, rawOutputs, output, mockContext,
                                 nextId>>

\* the caller is done with the last invocation's return
DropKubectlResult ==
    /\ kcall # KNone
    /\ kcall' = KNone
    /\ UNCHANGED <<cloud, dcall, env, cwd, walk, rawOutputs, output, mockContext, nextId>>

(***************************************************************************)
(* Apply taken one entry at a time.  walk holds the frames of               *)
(* applyTemplates that are on the stack (directory, its entries, the index *)
(* the loop is at), what the traversal handed to kubectl so far, and for   *)
(* each manifest handed on the value cli.env had when it was templated.    *)
(* Between two entries the command runner, or a caller it synchronises     *)
(* with, may call SetEnv.                                                  *)
(***************************************************************************)
Frame(path, entries) == [path |-> path, entries |-> entries, i |-> 1]

\* the error as the k frames of applyTemplates below the failing one, then
\* Apply, wrap it on the way out
RECURSIVE WrapFrames(_, _)
WrapFrames(err, k) ==
    IF k = 0 THEN Wrapf("failed process templates", err)
    ELSE WrapFrames(Wrapf("failed applying templates at", err), k - 1)

\* the walk after the error return of the top frame
Failed(w, err) ==
    [w EXCEPT !.state = "returned", !.stack = <<>>,
              !.err = WrapFrames(err, Len(w.stack) - 1)]

\* the walk after the top frame returned nil: its caller's loop continues
Popped(w) ==
    LET rest == SubSeq(w.stack, 1, Len(w.stack) - 1)
    IN IF rest = <<>>
       THEN [w EXCEPT !.state = "returned", !.stack = <<>>, !.err = NoErr]
       ELSE [w EXCEPT !.stack = [rest EXCEPT ![Len(rest)].i = @ + 1]]

\* the walk after the top frame's loop moved to its next entry
Advanced(w) == [w EXCEPT !.stack[Len(w.stack)].i = @ + 1]

\* Apply is called: applyTemplates lists the directory.  The flags, which play
\* no part in templating, are nil here; ApplyOp covers them.
ApplyBegin ==
    /\ kcall = KNone
    /\ walk = NoWalk
    /\ \E flags \in {NilFlags}, listing \in Listings(MaxDepth), listed \in BOOLEAN :
           /\ walk' = IF listed
                      THEN [NoWalk EXCEPT !.state = "running", !.flags = flags,
                                          !.stack = <<Frame(RootPath, listing)>>]
                      ELSE [NoWalk EXCEPT !.state = "returned", !.flags = flags,
                                !.err = WrapFrames(Wrapf("failed reading files in path",
                                                         PlainError("readdir")), 0)]
           /\ UNCHANGED <<cloud, dcall, env, cwd, kcall, rawOutputs, output, mockContext,
                          nextId>>

\* one turn of the loop of the applyTemplates on top of the stack
ApplyStep ==
    /\ walk.state = "running"
    /\ LET f == walk.stack[Len(walk.stack)]
       IN IF f.i > Len(f.entries)
          THEN walk' = Popped(walk)
          ELSE LET entry == f.entries[f.i]
                   entryPath == Append(f.path, entry.name)
                   ext == Ext(entry.name)
               IN IF entry.isDir
                  THEN \E listed \in BOOLEAN :
                           walk' = IF listed
                                   THEN [walk EXCEPT !.stack =
                                            Append(@, Frame(entryPath, entry.entries))]
                                   ELSE Failed([walk EXCEPT !.stack = Append(@, f)],
                                               Wrapf("failed reading files in path",
                                                     PlainError("readdir")))
                  ELSE IF ~(ext = ExtYaml \/ ext = ExtYml)
                  THEN walk' = Advanced(walk)
                  ELSE \E fail \in 0..3 :
                           LET one == applyTemplate(entryPath, walk.flags, fail,
                                          [n |-> 0, runs |-> walk.runs,
                                           applied |-> walk.applied, err |-> NoErr])
                               w == [walk EXCEPT
                                        !.runs = one.runs,
                                        !.applied = one.applied,
                                        !.envs = IF Len(one.runs) > Len(walk.runs)
                                                 THEN Append(@, env) ELSE @]
                           IN walk' = IF one.err # NoErr
                                      THEN Failed(w, Wrapf("failed applying template",
                                                           one.err))
                                      ELSE Advanced(w)
    /\ UNCHANGED <<cloud, dcall, env, cwd, kcall, rawOutputs, output, mockContext, nextId>>

\* SetEnv is called while Apply is between two entries, after it templated a
\* manifest (before the first, the call is no other than one made before
\* Apply), once in one Apply
SetEnvDuringApply ==
    /\ walk.state = "running"
    /\ walk.applied # <<>>
    /\ ~walk.setEnv
    /\ \E envValues \in EnvMaps :
           /\ env' = envValues
           /\ walk' = [walk EXCEPT !.setEnv = TRUE]
           /\ UNCHANGED <<cloud, dcall, cwd, kcall, rawOutputs, output, mockContext,
                          nextId>>

\* the caller is done with Apply's return
ApplyReturn ==
    /\ walk.state = "returned"
    /\ walk' = NoWalk
    /\ UNCHANGED <<cloud, dcall, env, cwd, kcall, rawOutputs, output, mockContext, nextId>>


(***************************************************************************)
(* CreateDeploymentOutput (pkg/azapi/deployments.go).                      *)
(*                                                                         *)
(* A Go interface{} value is a record: t is its dynamic type, s its text   *)
(* when it is a string or a number, m its entries when it is a             *)
(* map[string]interface{}.                                                 *)
(***************************************************************************)
EmptyMap == [k \in {} |-> k]
GoNil == [t |-> "nil", s |-> "", m |-> EmptyMap]
GoString(text) == [t |-> "string", s |-> text, m |-> EmptyMap]
GoNumber(text) == [t |-> "float64", s |-> text, m |-> EmptyMap]
GoMap(entries) == [t |-> "map", s |-> "", m |-> entries]

AzCliDeploymentOutput(type, value) == [Type |-> type, Value |-> value]

\* the outcome of a call: a returned map, or the panic of a failed type assertion
Returned(result) == [done |-> TRUE, panic |-> FALSE, result |-> result]
Panicked == [done |-> TRUE, panic |-> TRUE, result |-> EmptyMap]
NotRun == [done |-> FALSE, panic |-> FALSE, result |-> EmptyMap]

\* output.(map[string]interface{}) or innerValue["type"].(string) panics
OutputPanics(entry) ==
    \/ entry.t # "map"
    \/ "type" \notin DOMAIN entry.m
    \/ entry.m["type"].t # "string"

\* CreateDeploymentOutput, but with checked type assertions that skip an output
\* it cannot convert
CreateDeploymentOutput_SkipsMalformed(raw) ==
    IF raw = GoNil THEN Returned(EmptyMap)
    ELSE IF raw.t # "map" THEN Returned(EmptyMap)
    ELSE Returned([key \in {k \in DOMAIN raw.m : ~OutputPanics(raw.m[k])} |->
                    LET innerValue == raw.m[key].m
                    IN AzCliDeploymentOutput(
                           innerValue["type"].s,
                           IF "value" \in DOMAIN innerValue
                           THEN innerValue["value"] ELSE GoNil)])

CreateDeploymentOutput(raw) ==
    IF raw = GoNil THEN Returned(EmptyMap)
    ELSE IF raw.t # "map" THEN Panicked
    ELSE IF \E key \in DOMAIN raw.m : OutputPanics(raw.m[key]) THEN Panicked
    ELSE Returned([key \in DOMAIN raw.m |->
                    LET innerValue == raw.m[key].m
                    IN AzCliDeploymentOutput(
                           innerValue["type"].s,
                           IF "value" \in DOMAIN innerValue
                           THEN innerValue["value"] ELSE GoNil)])

\* bound of the conversion model: the number of outputs of a deployment
MaxOutputs == 2

OutputKeyList == <<"endpoint", "name", "count", "tags">>
OutputKeys == {OutputKeyList[i] : i \in 1..MaxOutputs}

TypeValue(type, value) == GoMap([k \in {"type", "value"} |->
                                    IF k = "type" THEN type ELSE value])

\* what the SDK may hold for one output: well-formed entries and others
RawEntries ==
    { TypeValue(GoString("String"), GoString("https://example")),
      TypeValue(GoString("Int"), GoNumber("42")),
      TypeValue(GoString("Object"), GoMap([k \in {"a"} |-> GoString("b")])),
      TypeValue(GoString("String"), GoNil),
      GoMap([k \in {"type"} |-> GoString("String")]),
      GoMap([k \in {"value"} |-> GoString("orphan")]),
      TypeValue(GoNumber("1"), GoString("typed by a number")),
      GoString("not a map"),
      GoNil }

RawInputs ==
    {GoNil, GoString("not a map"), GoNumber("7")}
    \cup {GoMap(entries) : entries \in UNION {[K -> RawEntries] : K \in SUBSET OutputKeys}}

CreateDeploymentOutputOp ==
    /\ ~output.done
    /\ output' = CreateDeploymentOutput(rawOutputs)
    /\ UNCHANGED <<cloud, dcall, env, cwd, kcall, walk, rawOutputs, mockContext, nextId>>


(***************************************************************************)
(* The mock context (test/mocks).  Objects are told apart by identity: a   *)
(* constructor call yields the next fresh identity.                        *)
(***************************************************************************)
\* the objects NewMockContext constructs, in the order it constructs them
AllocationOrder ==
    <<"HttpClient", "ConfigManager", "Config", "CoreClientOptions",
      "ArmClientOptions", "Credentials", "Context", "Console", "CommandRunner",
      "SubscriptionCredentialProvider", "MultiTenantCredentialProvider",
      "Container", "AlphaFeaturesManager">>

MockFields == {AllocationOrder[i] : i \in 1..Len(AllocationOrder)}

AllocIndex(f) == CHOOSE i \in 1..Len(AllocationOrder) : AllocationOrder[i] = f

\* the container: MustRegisterSingleton records the resolver for a type; the
\* resolvers here are closures that read one field of the mock context
MustRegisterSingleton(bindings, type, field) ==
    Append(bindings, [type |-> type, field |-> field])

\* registerCommonMocks, but without the registration of the ARM client options
registerCommonMocks_NoArmOptions(bindings) ==
    LET b1 == MustRegisterSingleton(bindings, "ioc.ServiceLocator", "Container")
        b2 == MustRegisterSingleton(b1, "azcore.TokenCredential", "Credentials")
        b3 == MustRegisterSingleton(b2, "httputil.HttpClient", "HttpClient")
        b4 == MustRegisterSingleton(b3, "exec.CommandRunner", "CommandRunner")
        b5 == MustRegisterSingleton(b4, "input.Console", "Console")
        b6 == MustRegisterSingleton(b5, "config.FileConfigManager", "ConfigManager")
        b7 == MustRegisterSingleton(b6, "*alpha.FeatureManager", "AlphaFeaturesManager")
        b8 == MustRegisterSingleton(b7, "*policy.ClientOptions", "CoreClientOptions")
    IN b8

registerCommonMocks(bindings) ==
    LET b1 == MustRegisterSingleton(bindings, "ioc.ServiceLocator", "Container")
        b2 == MustRegisterSingleton(b1, "azcore.TokenCredential", "Credentials")
        b3 == MustRegisterSingleton(b2, "httputil.HttpClient", "HttpClient")
        b4 == MustRegisterSingleton(b3, "exec.CommandRunner", "CommandRunner")
        b5 == MustRegisterSingleton(b4, "input.Console", "Console")
        b6 == MustRegisterSingleton(b5, "config.FileConfigManager", "ConfigManager")
        b7 == MustRegisterSingleton(b6, "*alpha.FeatureManager", "AlphaFeaturesManager")
        b8 == MustRegisterSingleton(b7, "*policy.ClientOptions", "CoreClientOptions")
        b9 == MustRegisterSingleton(b8, "*arm.ClientOptions", "ArmClientOptions")
    IN b9

\* NewMockContext with `base` identities in use so far
NewMockContext(base) ==
    LET fields == [f \in MockFields |-> base + AllocIndex(f)]
    IN [built |-> TRUE,
        fields |-> fields,
        transport |-> [o \in {"CoreClientOptions", "ArmClientOptions"} |->
                          fields["HttpClient"]],
        bindings |-> registerCommonMocks(<<>>),
        instances |-> EmptyMap]

NoMockContext ==
    [built |-> FALSE, fields |-> [f \in MockFields |-> 0],
     transport |-> [o \in {"CoreClientOptions", "ArmClientOptions"} |-> 0],
     bindings |-> <<>>, instances |-> EmptyMap]

RegisteredTypes(mc) == {mc.bindings[i].type : i \in DOMAIN mc.bindings}

\* the resolver in force for a type: the one registered last
BindingOf(mc, type) ==
    LET last == CHOOSE i \in DOMAIN mc.bindings :
                    /\ mc.bindings[i].type = type
                    /\ \A j \in DOMAIN mc.bindings :
                           mc.bindings[j].type = type => j <= i
    IN mc.bindings[last]

\* container.Resolve of a singleton: the resolver runs on the first resolution
\* and its instance is kept
Resolve(mc, type) ==
    IF type \in DOMAIN mc.instances THEN mc
    ELSE [mc EXCEPT !.instances =
              [t \in DOMAIN mc.instances \cup {type} |->
                  IF t = type THEN mc.fields[BindingOf(mc, type).field]
                  ELSE mc.instances[t]]]

\* bound of the mock model: the mock contexts one test process builds
MaxContexts == 2

NewMockContextOp ==
    /\ nextId < MaxContexts * Len(AllocationOrder)
    /\ mockContext' = NewMockContext(nextId)
    /\ nextId' = nextId + Len(AllocationOrder)
    /\ UNCHANGED <<cloud, dcall, env, cwd, kcall, walk, rawOutputs, output>>

ResolveOp ==
    \E type \in RegisteredTypes(mockContext) :
        /\ mockContext' = Resolve(mockContext, type)
        /\ UNCHANGED <<cloud, dcall, env, cwd, kcall, walk, rawOutputs, output, nextId>>

(***************************************************************************)
(* The specifications: one per piece, the other pieces idle.               *)
(***************************************************************************)
IdleDeploy == cloud = {} /\ dcall = NoCall
IdleKubectl == env = EmptyMap /\ cwd = "" /\ kcall = KNone /\ walk = NoWalk
IdleOutput == rawOutputs = GoNil /\ output = NotRun
IdleMock == mockContext = NoMockContext /\ nextId = 0

InitDeploy == IdleDeploy /\ IdleKubectl /\ IdleOutput /\ IdleMock

NextDeploy ==
    \/ ListSubscriptionDeploymentsOp
    \/ ListResourceGroupDeploymentsOp
    \/ GetSubscriptionDeploymentOp
    \/ GetResourceGroupDeploymentOp
    \/ DeployToSubscriptionOp
    \/ DeployToResourceGroupOp
    \/ WhatIfDeployToSubscriptionOp
    \/ WhatIfDeployToResourceGroupOp
    \/ DeleteSubscriptionDeploymentOp
    \/ DropDeployResult

SpecDeploy == InitDeploy /\ [][NextDeploy]_vars

InitKubectl == IdleDeploy /\ IdleKubectl /\ IdleOutput /\ IdleMock

NextKubectl ==
    \/ SetEnv
    \/ Cwd
    \/ ExecOp
    \/ ConfigUseContextOp
    \/ ConfigViewOp
    \/ ApplyWithInputOp
    \/ ApplyOp
    \/ CreateNamespaceOp
    \/ CreateSecretGenericFromLiteralsOp
    \/ RolloutStatusOp
    \/ DropKubectlResult

SpecKubectl == InitKubectl /\ [][NextKubectl]_vars

InitTemplating == IdleDeploy /\ IdleKubectl /\ IdleOutput /\ IdleMock

NextTemplating ==
    \/ SetEnv
    \/ ApplyBegin
    \/ ApplyStep
    \/ SetEnvDuringApply
    \/ ApplyReturn

SpecTemplating == InitTemplating /\ [][NextTemplating]_vars

InitOutput ==
    /\ IdleDeploy /\ IdleKubectl /\ IdleMock
    /\ rawOutputs \in RawInputs
    /\ output = NotRun

NextOutput == CreateDeploymentOutputOp

SpecOutput == InitOutput /\ [][NextOutput]_vars

InitMock == IdleDeploy /\ IdleKubectl /\ IdleOutput /\ IdleMock

NextMock == NewMockContextOp \/ ResolveOp

SpecMock == InitMock /\ [][NextMock]_vars


(***************************************************************************)
(* The claims about the deployments wrapper, checked under SpecDeploy.     *)
(***************************************************************************)
LroOps ==
    {"DeployToSubscription", "DeployToResourceGroup", "WhatIfDeployToSubscription",
     "WhatIfDeployToResourceGroup", "DeleteSubscriptionDeployment"}
WhatIfOps == {"WhatIfDeployToSubscription", "WhatIfDeployToResourceGroup"}
GetOps == {"GetSubscriptionDeployment", "GetResourceGroupDeployment"}
ListOps == {"ListSubscriptionDeployments", "ListResourceGroupDeployments"}

\* the begin request each long-running operation is to issue
BeginApiOf(op) ==
    CASE op = "DeployToSubscription" -> "BeginCreateOrUpdateAtSubscriptionScope"
      [] op = "DeployToResourceGroup" -> "BeginCreateOrUpdate"
      [] op = "WhatIfDeployToSubscription" -> "BeginWhatIfAtSubscriptionScope"
      [] op = "WhatIfDeployToResourceGroup" -> "BeginWhatIf"
      [] op = "DeleteSubscriptionDeployment" -> "BeginDeleteAtSubscriptionScope"

BeginsOf(calls) == {i \in DOMAIN calls : calls[i].api \in BeginApis}
PollsOf(calls) == {i \in DOMAIN calls : calls[i].api = "PollUntilDone"}

\* C1: one invocation of a long-running operation issues exactly one begin
\* request, its own, first; then at most one PollUntilDone, and that only if the
\* begin request succeeded; nothing is issued again; and the operation returns
\* a non-nil result or a nil error only after PollUntilDone returned without error.
C1_OneBeginThenAtMostOnePoll ==
    dcall.op \in LroOps =>
        LET calls == dcall.calls
        IN /\ BeginsOf(calls) = {1}
           /\ calls[1].api = BeginApiOf(dcall.op)
           /\ PollsOf(calls) \subseteq {2}
           /\ DOMAIN calls = BeginsOf(calls) \cup PollsOf(calls)
           /\ PollsOf(calls) # {} => calls[1].err = NoErr
           /\ (dcall.err = NoErr \/ dcall.result # NilResult) =>
                  /\ PollsOf(calls) = {2}
                  /\ calls[2].err = NoErr

\* a deployment succeeded after its begin request and its poll both did
C1_Witness ==
    /\ dcall.op = "DeployToResourceGroup"
    /\ dcall.err = NoErr
    /\ dcall.result # NilResult
    /\ Len(dcall.calls) = 2

\* the SDK error is a response error with status 404: the error at the end of
\* its chain is a ResponseError carrying that status
IsNotFoundResponse(err) ==
    /\ err # NoErr
    /\ err[Len(err)].kind = "ResponseError"
    /\ err[Len(err)].status = 404

\* outer wraps inner: unwrapping outer some times yields inner
WrapsError(outer, inner) ==
    /\ Len(outer) > Len(inner)
    /\ SubSeq(outer, Len(outer) - Len(inner) + 1, Len(outer)) = inner

\* C2: a get returns exactly ErrDeploymentNotFound, and no deployment, when the
\* SDK fails with a 404 response error; for any other SDK failure no deployment
\* and an error that wraps the SDK's and is not ErrDeploymentNotFound; and a
\* deployment with a nil error exactly when the SDK call succeeds.
C2_GetClassifiesNotFound ==
    dcall.op \in GetOps =>
        LET sdkErr == dcall.sdkErr
        IN /\ IsNotFoundResponse(sdkErr) =>
                  /\ dcall.err = ErrDeploymentNotFound
                  /\ dcall.result = NilResult
           /\ (sdkErr # NoErr /\ ~IsNotFoundResponse(sdkErr)) =>
                  /\ dcall.result = NilResult
                  /\ WrapsError(dcall.err, sdkErr)
                  /\ ~ErrorsIs(dcall.err, ErrDeploymentNotFound)
           /\ (dcall.result # NilResult /\ dcall.err = NoErr) <=> sdkErr = NoErr
           /\ dcall.calls[1].err = sdkErr

\* a get met a 404 that an SDK policy had wrapped
C2_Witness ==
    /\ dcall.op = "GetResourceGroupDeployment"
    /\ Len(dcall.sdkErr) = 2
    /\ IsNotFoundResponse(dcall.sdkErr)
    /\ dcall.err = ErrDeploymentNotFound

\* C3: a what-if operation issues only what-if requests (and the poll), never a
\* create-or-update or a delete, and the deployments that exist after it are
\* those that existed before it, whether it succeeded or failed.
C3_WhatIfChangesNothing ==
    dcall.op \in WhatIfOps =>
        /\ \A i \in DOMAIN dcall.calls :
               /\ dcall.calls[i].api \in WhatIfApis \cup {"PollUntilDone"}
               /\ dcall.calls[i].api \notin CreateApis \cup DeleteApis
        /\ cloud = dcall.pre

\* a what-if succeeded for a deployment that does not exist, beside one that does
C3_Witness ==
    /\ dcall.op = "WhatIfDeployToResourceGroup"
    /\ dcall.err = NoErr
    /\ dcall.result.kind = "WhatIfOperationResult"
    /\ cloud # {}
    /\ <<dcall.result.scope, dcall.result.name>> \notin cloud

RECURSIVE ConcatPages(_)
ConcatPages(pages) ==
    IF pages = <<>> THEN <<>> ELSE Head(pages).value \o ConcatPages(Tail(pages))

FailedPages(script) == {i \in DOMAIN script : script[i].err # NoErr}

FirstFailedPage(script) ==
    CHOOSE i \in FailedPages(script) : \A j \in FailedPages(script) : i <= j

\* C4: a list fetches pages until the pager has no more; when every fetch
\* succeeds it returns the pages' values concatenated in page order (an empty
\* list, not nil, when there are none); when a fetch fails it fetches no further
\* page and returns nil with that fetch's error.
C4_ListConcatenatesOrFails ==
    dcall.op \in ListOps =>
        LET script == dcall.script
        IN IF FailedPages(script) = {}
           THEN /\ dcall.err = NoErr
                /\ dcall.result.kind = "list"
                /\ dcall.result.items = ConcatPages(script)
                /\ Len(dcall.calls) = Len(script)
           ELSE /\ dcall.result = NilResult
                /\ dcall.err = script[FirstFailedPage(script)].err
                /\ Len(dcall.calls) = FirstFailedPage(script)

\* a list fetched two pages that both held deployments
C4_Witness ==
    /\ dcall.op = "ListResourceGroupDeployments"
    /\ Len(dcall.script) = 2
    /\ FailedPages(dcall.script) = {}
    /\ \A i \in 1..2 : dcall.script[i].value # <<>>
    /\ Len(dcall.result.items) >= 2


(***************************************************************************)
(* The claims about the kubectl wrapper, checked under SpecKubectl.        *)
(***************************************************************************)
CommandOps ==
    {"Exec", "ConfigUseContext", "ConfigView", "ApplyWithInput", "Apply",
     "CreateNamespace", "CreateSecretGenericFromLiterals", "RolloutStatus"}

\* C5: after SetEnv(env) every kubectl command run through the wrapper is
\* handed to the command runner with the entries KEY=VALUE of env, until the
\* next SetEnv.
C5_EveryCommandCarriesEnv ==
    kcall.op \in CommandOps =>
        \A i \in DOMAIN kcall.runs :
            kcall.runs[i].Env = {<<k, "=", env[k]>> : k \in DOMAIN env}

\* C6: with a non-empty working directory set by Cwd every command, ConfigView
\* included, runs in it; with none set ConfigView runs in the kube config
\* directory and every other command with no working directory.
C6_CwdIsTheWorkingDirectory ==
    kcall.op \in CommandOps =>
        \A i \in DOMAIN kcall.runs :
            IF cwd # "" THEN kcall.runs[i].Cwd = cwd
            ELSE IF kcall.op = "ConfigView" THEN kcall.runs[i].Cwd = KubeConfigDir
            ELSE kcall.runs[i].Cwd = ""

\* ConfigView ran after Cwd had set a working directory
C6_Witness ==
    /\ kcall.op = "ConfigView"
    /\ cwd \in WorkDirs
    /\ Len(kcall.runs) = 1
    /\ kcall.runs[1].Cwd # KubeConfigDir

\* the arguments each command is to pass of its own
RECURSIVE LiteralArgs(_)
LiteralArgs(secrets) ==
    IF secrets = <<>> THEN <<>>
    ELSE <<(<<"--from-literal=", secrets[1]>>)>> \o LiteralArgs(Tail(secrets))

OwnArgs(call) ==
    CASE call.op = "Exec" -> call.args
      [] call.op = "ConfigUseContext" ->
             <<(<<"config">>), <<"use-context">>, <<call.name>> >>
      [] call.op = "ConfigView" ->
             <<(<<"config">>), <<"view">> >>
             \o (IF call.merge THEN <<(<<"--merge">>)>> ELSE <<>>)
             \o (IF call.flatten THEN <<(<<"--flatten">>)>> ELSE <<>>)
      [] call.op \in {"ApplyWithInput", "Apply"} ->
             <<(<<"apply">>), <<"-f">>, <<"-">> >>
      [] call.op = "CreateNamespace" ->
             <<(<<"create">>), <<"namespace">>, <<call.name>> >>
      [] call.op = "CreateSecretGenericFromLiterals" ->
             <<(<<"create">>), <<"secret">>, <<"generic">>, <<call.name>> >>
             \o LiteralArgs(call.args)
      [] call.op = "RolloutStatus" ->
             <<(<<"rollout">>), <<"status">>, <<"deployment/", call.name>> >>

FlagArgs(flags) ==
    IF flags.isNil THEN <<>>
    ELSE (IF flags.DryRun = "" THEN <<>> ELSE <<(<<"--dry-run=", flags.DryRun>>)>>)
         \o (IF flags.Namespace = "" THEN <<>> ELSE <<(<<"-n">>), <<flags.Namespace>> >>)
         \o (IF flags.Output = "" THEN <<>> ELSE <<(<<"-o">>), <<flags.Output>> >>)

\* C7: the arguments handed to the command runner are the command's own
\* arguments followed by "--dry-run=<DryRun>", "-n" "<Namespace>", "-o"
\* "<Output>", in this order and only for the non-empty fields; nil flags and
\* flags with every field empty add nothing.
C7_ArgsAreOwnThenFlags ==
    kcall.op \in CommandOps =>
        \A i \in DOMAIN kcall.runs :
            /\ kcall.runs[i].Cmd = "kubectl"
            /\ kcall.runs[i].Args = OwnArgs(kcall) \o FlagArgs(kcall.flags)

\* a secret of two literals was created with every flag set
C7_Witness ==
    /\ kcall.op = "CreateSecretGenericFromLiterals"
    /\ Len(kcall.args) = 2
    /\ ~kcall.flags.isNil
    /\ kcall.flags.DryRun # "" /\ kcall.flags.Namespace # "" /\ kcall.flags.Output # ""
    /\ Len(kcall.runs) = 1
    /\ Len(kcall.runs[1].Args) = 11

HasSuffix(name, suffix) ==
    /\ Len(name) >= Len(suffix)
    /\ SubSeq(name, Len(name) - Len(suffix) + 1, Len(name)) = suffix

IsManifestName(name) ==
    \/ HasSuffix(name, <<".", "y", "a", "m", "l">>)
    \/ HasSuffix(name, <<".", "y", "m", "l">>)

\* the manifests under a directory: its files named *.yaml or *.yml in listing
\* order, those of a subdirectory at the place of the subdirectory
RECURSIVE ManifestsUnder(_, _)
ManifestsUnder(path, entries) ==
    IF entries = <<>> THEN <<>>
    ELSE LET e == Head(entries)
             p == Append(path, e.name)
         IN (IF e.isDir THEN ManifestsUnder(p, e.entries)
             ELSE IF IsManifestName(e.name) THEN <<p>>
             ELSE <<>>)
            \o ManifestsUnder(path, Tail(entries))

\* C8: when Apply returns nil, one `kubectl apply -f -` was run for each file
\* named *.yaml or *.yml at any depth under the path, in listing order with a
\* subdirectory's files at the place of the subdirectory, and none for any
\* other file.
C8_ApplyRunsEachManifestOnce ==
    (kcall.op = "Apply" /\ kcall.err = NoErr) =>
        /\ kcall.applied = ManifestsUnder(RootPath, kcall.listing)
        /\ Len(kcall.runs) = Len(kcall.applied)
        /\ \A i \in DOMAIN kcall.runs :
               /\ kcall.runs[i].Cmd = "kubectl"
               /\ SubSeq(kcall.runs[i].Args, 1, 3) = <<(<<"apply">>), <<"-f">>, <<"-">> >>
               /\ kcall.runs[i].HasStdIn

\* Apply succeeded on a directory holding two manifests, another file, and a
\* subdirectory holding two manifests
C8_Witness ==
    /\ kcall.op = "Apply"
    /\ kcall.err = NoErr
    /\ Len(kcall.listing) = 4
    /\ Len(kcall.applied) = 4
    /\ Len(kcall.applied[2]) = 3
    /\ Len(kcall.applied[4]) = 2

\* the steps of a traversal that can fail, in traversal order: listing a
\* directory, then for each manifest reading it, substituting its variables and
\* running `kubectl apply` on it
RECURSIVE TraversalSteps(_, _)
TraversalSteps(path, entries) ==
    IF entries = <<>> THEN <<>>
    ELSE LET e == Head(entries)
             p == Append(path, e.name)
         IN (IF e.isDir
             THEN <<[step |-> "list", path |-> p]>> \o TraversalSteps(p, e.entries)
             ELSE IF IsManifestName(e.name)
             THEN <<[step |-> "read", path |-> p], [step |-> "substitute", path |-> p],
                    [step |-> "apply", path |-> p]>>
             ELSE <<>>)
            \o TraversalSteps(path, Tail(entries))

AllSteps(listing) ==
    <<[step |-> "list", path |-> RootPath]>> \o TraversalSteps(RootPath, listing)

RECURSIVE PathsOf(_)
PathsOf(steps) ==
    IF steps = <<>> THEN <<>> ELSE <<Head(steps).path>> \o PathsOf(Tail(steps))

\* the manifests `kubectl apply` was run on when step number k is the last taken
AppliedThrough(listing, k) ==
    PathsOf(SelectSeq(SubSeq(AllSteps(listing), 1, k), LAMBDA s : s.step = "apply"))

\* C11: Apply is fail-fast.  When a step of the traversal fails (a directory
\* cannot be listed, a manifest cannot be read, a substitution fails, or a
\* `kubectl apply` fails) Apply returns an error, the kubectl commands it ran
\* are the `kubectl apply` of the manifests up to the failing step in traversal
\* order and none for a later file, and no other command (no rollback) was run.
C11_ApplyIsFailFast ==
    (kcall.op = "Apply" /\ kcall.fail # 0) =>
        /\ kcall.err # NoErr
        /\ kcall.applied = AppliedThrough(kcall.listing, kcall.fail)
        /\ Len(kcall.runs) = Len(kcall.applied)
        /\ \A i \in DOMAIN kcall.runs :
               /\ kcall.runs[i].Cmd = "kubectl"
               /\ SubSeq(kcall.runs[i].Args, 1, 3) = <<(<<"apply">>), <<"-f">>, <<"-">> >>
               /\ kcall.runs[i].HasStdIn

\* Apply failed reading the second of three manifests: one was applied before
\* the failure, and a manifest later in the traversal was left alone
C11_Witness ==
    /\ kcall.op = "Apply"
    /\ kcall.fail # 0
    /\ kcall.err # NoErr
    /\ AllSteps(kcall.listing)[kcall.fail].step = "read"
    /\ Len(kcall.applied) = 1
    /\ Len(ManifestsUnder(RootPath, kcall.listing)) = 3

(***************************************************************************)
(* The claim about templating, checked under SpecTemplating.               *)
(***************************************************************************)
\* a variable's value under the map m given to SetEnv: the map's when the map
\* holds the name, the process environment's otherwise
ResolvedIn(m, name) == IF name \in DOMAIN m THEN m[name] ELSE OsGetenv(name)

\* a manifest's text with every reference resolved under m
RECURSIVE TemplatedIn(_, _)
TemplatedIn(m, text) ==
    IF text = <<>> THEN <<>>
    ELSE <<IF Head(text).var THEN ResolvedIn(m, Head(text).text) ELSE Head(text).text>>
         \o TemplatedIn(m, Tail(text))

\* C12: the text handed to kubectl for a manifest is the manifest's with every
\* variable reference resolved from the map last given to SetEnv when the map
\* holds the name (an empty value included) and from the process environment
\* only when it does not, the map being the one current when that file was
\* processed: a SetEnv made between two files shows in the later file.
C12_TemplatedFromTheCurrentEnv ==
    /\ Len(walk.runs) = Len(walk.applied)
    /\ Len(walk.envs) = Len(walk.applied)
    /\ \A i \in DOMAIN walk.runs :
           LET filePath == walk.applied[i]
           IN walk.runs[i].StdIn =
                  TemplatedIn(walk.envs[i], ManifestText(filePath[Len(filePath)]))

\* a.yaml was templated before any SetEnv, so ${A} came from the process
\* environment; SetEnv then gave a map holding A with an empty value, and d.yml,
\* templated after it, got the empty value for ${A} and the process
\* environment's for ${B}
C12_Witness ==
    /\ walk.setEnv
    /\ Len(walk.runs) = 2
    /\ walk.envs[1] = EmptyMap
    /\ DOMAIN walk.envs[2] = {"A"}
    /\ walk.envs[2]["A"] = ""
    /\ walk.applied[1][Len(walk.applied[1])] = NameA
    /\ walk.applied[2][Len(walk.applied[2])] = NameD
    /\ walk.runs[1].StdIn = <<"kind: Pod ", "hostA">>
    /\ walk.runs[2].StdIn = <<"", " kind: Service ", "">>


(***************************************************************************)
(* The claim about CreateDeploymentOutput, checked under SpecOutput.       *)
(***************************************************************************)
\* a map whose every entry is a map with a string "type"
WellFormedOutputs(raw) ==
    /\ raw.t = "map"
    /\ \A key \in DOMAIN raw.m :
           /\ raw.m[key].t = "map"
           /\ "type" \in DOMAIN raw.m[key].m
           /\ raw.m[key].m["type"].t = "string"

\* C9: nil yields an empty map; a well-formed input yields a map with the
\* input's keys, each entry carrying that key's "type" as Type and its "value"
\* unchanged as Value (nil when there is none); any other input aborts the
\* conversion, and no value is returned.
C9_OutputsConverted ==
    output.done =>
        /\ rawOutputs = GoNil =>
               /\ ~output.panic
               /\ DOMAIN output.result = {}
        /\ WellFormedOutputs(rawOutputs) =>
               /\ ~output.panic
               /\ DOMAIN output.result = DOMAIN rawOutputs.m
               /\ \A key \in DOMAIN rawOutputs.m :
                      /\ output.result[key].Type = rawOutputs.m[key].m["type"].s
                      /\ output.result[key].Value =
                             IF "value" \in DOMAIN rawOutputs.m[key].m
                             THEN rawOutputs.m[key].m["value"]
                             ELSE GoNil
        /\ (rawOutputs # GoNil /\ ~WellFormedOutputs(rawOutputs)) => output.panic

\* two outputs were converted, one of them holding no "value"
C9_Witness ==
    /\ output.done
    /\ ~output.panic
    /\ Cardinality(DOMAIN output.result) = 2
    /\ \E key \in DOMAIN rawOutputs.m :
           /\ "value" \notin DOMAIN rawOutputs.m[key].m
           /\ output.result[key].Value = GoNil
    /\ \E key \in DOMAIN rawOutputs.m : output.result[key].Value.t = "map"

(***************************************************************************)
(* The claim about the mock context, checked under SpecMock.               *)
(***************************************************************************)
\* the field of the mock context each service type is to resolve to
ServiceField ==
    [t \in {"ioc.ServiceLocator", "azcore.TokenCredential", "httputil.HttpClient",
            "exec.CommandRunner", "input.Console", "config.FileConfigManager",
            "*alpha.FeatureManager", "*policy.ClientOptions", "*arm.ClientOptions"} |->
        CASE t = "ioc.ServiceLocator" -> "Container"
          [] t = "azcore.TokenCredential" -> "Credentials"
          [] t = "httputil.HttpClient" -> "HttpClient"
          [] t = "exec.CommandRunner" -> "CommandRunner"
          [] t = "input.Console" -> "Console"
          [] t = "config.FileConfigManager" -> "ConfigManager"
          [] t = "*alpha.FeatureManager" -> "AlphaFeaturesManager"
          [] t = "*policy.ClientOptions" -> "CoreClientOptions"
          [] t = "*arm.ClientOptions" -> "ArmClientOptions"]

\* C10: in a mock context each of the nine service types is registered exactly
\* once; resolving a type yields the object the mock context holds in the
\* matching field (the container itself for the service locator); and the one
\* mock HTTP client is the transport of the core and of the ARM client options.
C10_ContainerResolvesTheMocks ==
    mockContext.built =>
        /\ \A t \in DOMAIN ServiceField :
               Cardinality({i \in DOMAIN mockContext.bindings :
                               mockContext.bindings[i].type = t}) = 1
        /\ RegisteredTypes(mockContext) = DOMAIN ServiceField
        /\ \A t \in DOMAIN mockContext.instances :
               mockContext.instances[t] = mockContext.fields[ServiceField[t]]
        /\ \A t \in DOMAIN ServiceField :
               Resolve(mockContext, t).instances[t] = mockContext.fields[ServiceField[t]]
        /\ mockContext.transport["CoreClientOptions"] = mockContext.fields["HttpClient"]
        /\ mockContext.transport["ArmClientOptions"] = mockContext.fields["HttpClient"]
        /\ \A f, g \in MockFields :
               f # g => mockContext.fields[f] # mockContext.fields[g]

\* every service type was resolved from the second mock context of a process
C10_Witness ==
    /\ mockContext.built
    /\ nextId = 2 * Len(AllocationOrder)
    /\ DOMAIN mockContext.instances = DOMAIN ServiceField

====
